---- MODULE Spec2Model ----
(***************************************************************************)
(* A model of rifle, the file opener of ranger (ranger/ext/rifle.py), and  *)
(* of the tag set of ranger (ranger/container/tags.py).                    *)
(*                                                                         *)
(* Python strings are modelled as tuples of one-character strings, so that *)
(* startswith, strip, split, "in" and concatenation are computed the way   *)
(* the interpreter computes them.  Python's None is the value None below,  *)
(* which is no string: its only element is not a single character.         *)
(***************************************************************************)
EXTENDS Integers, Sequences, FiniteSets, TLC

None == <<"None">>

\* ------------------------------------------------------------------------
\* Bounds of the model
\* ------------------------------------------------------------------------
\* lines of a configuration file
MaxLines == 2
\* files passed to list_commands / execute
MaxFiles == 1
\* largest value of execute()'s number argument
MaxNumber == 1
\* length of the flag strings squash_flags is called with
MaxFlags == 3
\* items passed to one call of Tags.add, Tags.remove or Tags.toggle
MaxItems == 2

\* ------------------------------------------------------------------------
\* String primitives (str methods used by rifle.py)
\* ------------------------------------------------------------------------
Whitespace == {" ", "\t", "\n", "\r"}

Truthy(s) == s # None /\ s # <<>>

StartsWith(s, p) ==
    /\ Len(s) >= Len(p)
    /\ SubSeq(s, 1, Len(p)) = p

\* x in s, for a string s and a substring x
Contains(s, x) ==
    \E i \in 1..(Len(s) - Len(x) + 1) : SubSeq(s, i, i + Len(x) - 1) = x

\* re.search(pattern, s) for a pattern without metacharacters
ReSearch(pattern, s) == Contains(s, pattern)

\* re.search('^' + pattern + '$', s) for a pattern without metacharacters
ReFullMatch(pattern, s) == s = pattern

RECURSIVE LStrip(_)
LStrip(s) ==
    IF s # <<>> /\ Head(s) \in Whitespace THEN LStrip(Tail(s)) ELSE s

RECURSIVE RStrip(_)
RStrip(s) ==
    IF s # <<>> /\ s[Len(s)] \in Whitespace
    THEN RStrip(SubSeq(s, 1, Len(s) - 1))
    ELSE s

\* s.strip()
Strip(s) == RStrip(LStrip(s))

\* index of the first occurrence of character c in s, 0 when absent
RECURSIVE FindFrom(_, _, _)
FindFrom(s, c, i) ==
    IF i > Len(s) THEN 0
    ELSE IF s[i] = c THEN i
    ELSE FindFrom(s, c, i + 1)

Find(s, c) == FindFrom(s, c, 1)

\* index of the last occurrence of character c in s, 0 when absent
RECURSIVE RFindFrom(_, _, _)
RFindFrom(s, c, i) ==
    IF i < 1 THEN 0
    ELSE IF s[i] = c THEN i
    ELSE RFindFrom(s, c, i - 1)

RFind(s, c) == RFindFrom(s, c, Len(s))

\* s.split(c): every piece between occurrences of the character c
RECURSIVE Split(_, _)
Split(s, c) ==
    LET i == Find(s, c) IN
    IF i = 0 THEN <<s>>
    ELSE <<SubSeq(s, 1, i - 1)>> \o Split(SubSeq(s, i + 1, Len(s)), c)

\* s.split(c, 1), for s containing c
Split1(s, c) ==
    LET i == Find(s, c) IN
    <<SubSeq(s, 1, i - 1), SubSeq(s, i + 1, Len(s))>>

\* index of the first whitespace character of s, 0 when absent
RECURSIVE FindSpaceFrom(_, _)
FindSpaceFrom(s, i) ==
    IF i > Len(s) THEN 0
    ELSE IF s[i] \in Whitespace THEN i
    ELSE FindSpaceFrom(s, i + 1)

\* s.split(None, 1): the first word and the rest, without the whitespace
\* run between them; no element for an empty string
SplitWords1(s) ==
    LET t == LStrip(s)
        i == FindSpaceFrom(t, 1)
    IN  IF t = <<>> THEN <<>>
        ELSE IF i = 0 THEN <<t>>
        ELSE LET rest == LStrip(SubSeq(t, i, Len(t))) IN
             IF rest = <<>> THEN <<SubSeq(t, 1, i - 1)>>
             ELSE <<SubSeq(t, 1, i - 1), rest>>

\* sep.join(parts)
RECURSIVE Join(_, _)
Join(sep, parts) ==
    IF parts = <<>> THEN <<>>
    ELSE IF Len(parts) = 1 THEN parts[1]
    ELSE parts[1] \o sep \o Join(sep, Tail(parts))

Digits == {"0", "1", "2", "3", "4", "5", "6", "7", "8", "9"}

DigitVal(c) ==
    CASE c = "0" -> 0 [] c = "1" -> 1 [] c = "2" -> 2 [] c = "3" -> 3
      [] c = "4" -> 4 [] c = "5" -> 5 [] c = "6" -> 6 [] c = "7" -> 7
      [] c = "8" -> 8 [] c = "9" -> 9

\* s.isdigit()
IsDigit(s) == s # <<>> /\ \A i \in 1..Len(s) : s[i] \in Digits

\* int(s), for s.isdigit()
RECURSIVE ToInt(_)
ToInt(s) ==
    IF s = <<>> THEN 0
    ELSE 10 * ToInt(SubSeq(s, 1, Len(s) - 1)) + DigitVal(s[Len(s)])

\* the letters: UpperOf[c] is c.upper() for a lowercase letter c
UpperOf ==
    ("a" :> "A" @@ "b" :> "B" @@ "c" :> "C" @@ "d" :> "D" @@
     "e" :> "E" @@ "f" :> "F" @@ "g" :> "G" @@ "h" :> "H" @@
     "i" :> "I" @@ "j" :> "J" @@ "k" :> "K" @@ "l" :> "L" @@
     "m" :> "M" @@ "n" :> "N" @@ "o" :> "O" @@ "p" :> "P" @@
     "q" :> "Q" @@ "r" :> "R" @@ "s" :> "S" @@ "t" :> "T" @@
     "u" :> "U" @@ "v" :> "V" @@ "w" :> "W" @@ "x" :> "X" @@
     "y" :> "Y" @@ "z" :> "Z")

LowerLetters == DOMAIN UpperOf
UpperLetters == {UpperOf[c] : c \in LowerLetters}

\* c.upper() and c.lower(): characters that are no letters map to themselves
Upper(c) == IF c \in LowerLetters THEN UpperOf[c] ELSE c
Lower(c) ==
    IF c \in UpperLetters
    THEN CHOOSE l \in LowerLetters : UpperOf[l] = c
    ELSE c

\* ------------------------------------------------------------------------
\* squash_flags
\* ------------------------------------------------------------------------
\* squash_flags with exclude built from the first flag f with f == f.upper()
\* only
squash_flags_first_upper_only(flags) ==
    LET uppers == {j \in 1..Len(flags) : flags[j] = Upper(flags[j])}
        exclude ==
            UNION {{Upper(flags[i]), Lower(flags[i])} :
                   i \in {j \in uppers : \A k \in uppers : j <= k}}
        Keep(f) == f \notin exclude
    IN  SelectSeq(flags, Keep)

squash_flags(flags) ==
    LET exclude ==
            UNION {{Upper(flags[i]), Lower(flags[i])} :
                   i \in {j \in 1..Len(flags) : flags[j] = Upper(flags[j])}}
        Keep(f) == f \notin exclude
    IN  SelectSeq(flags, Keep)

\* ------------------------------------------------------------------------
\* Config Loader: Rifle.reload_config
\* ------------------------------------------------------------------------
delimiter1 == "="
delimiter2 == ","

\* tuple(tuple(f.strip().split(None, 1)) for f in tests.split(delimiter2))
ParseTests(tests) ==
    LET parts == Split(tests, delimiter2) IN
    [i \in 1..Len(parts) |-> SplitWords1(Strip(parts[i]))]

\* the (command, tests) pair appended for a line that holds delimiter1
ParseRule(line) ==
    LET halves == Split1(line, delimiter1) IN
    [cmd |-> Strip(halves[2]), tests |-> ParseTests(halves[1])]

SyntaxError(lineno) ==
    [msg |-> "Syntax error", num |-> lineno, text |-> <<>>]

\* LoadLines giving up at the first line without delimiter: the exception
\* ends the loop instead of being logged
RECURSIVE LoadLines_stops_at_error(_, _, _)
LoadLines_stops_at_error(lines, i, acc) ==
    IF i > Len(lines) THEN acc
    ELSE
        LET raw == lines[i] IN
        IF StartsWith(raw, <<"#">>) \/ raw = <<"\n">>
        THEN LoadLines_stops_at_error(lines, i + 1, acc)
        ELSE
            LET line == Strip(raw) IN
            IF Find(line, delimiter1) = 0
            THEN [acc EXCEPT !.log = Append(@, SyntaxError(acc.lineno)),
                             !.lineno = @ + 1]
            ELSE LoadLines_stops_at_error(lines, i + 1,
                    [acc EXCEPT !.rules = Append(@, ParseRule(line)),
                                !.lineno = @ + 1])

\* the body of "for line in f", from line i on: acc holds self.rules,
\* the lines logged so far and the local lineno
RECURSIVE LoadLines(_, _, _)
LoadLines(lines, i, acc) ==
    IF i > Len(lines) THEN acc
    ELSE
        LET raw == lines[i] IN
        IF StartsWith(raw, <<"#">>) \/ raw = <<"\n">>
        THEN LoadLines(lines, i + 1, acc)
        ELSE
            LET line == Strip(raw) IN
            IF Find(line, delimiter1) = 0
            THEN LoadLines(lines, i + 1,
                    [acc EXCEPT !.log = Append(@, SyntaxError(acc.lineno)),
                                !.lineno = @ + 1])
            ELSE LoadLines(lines, i + 1,
                    [acc EXCEPT !.rules = Append(@, ParseRule(line)),
                                !.lineno = @ + 1])

\* the rules and the diagnostics after the loop has consumed `lines`
LoadResult(lines) ==
    LoadLines(lines, 1, [rules |-> <<>>, log |-> <<>>, lineno |-> 1])

\* ------------------------------------------------------------------------
\* The world outside the dispatcher, as it is during one call: a record
\*   executables  the names get_executables() returns
\*   tty          what _is_terminal() returns
\*   filemime     what spawn("file", "--mime-type", "-Lb", fname) returns
\*   cwd          the directory os.path.abspath resolves against
\* and os.environ, a record whose fields hold a string, or None when unset.
\* ------------------------------------------------------------------------
S_ext == <<"e", "x", "t">>
S_name == <<"n", "a", "m", "e">>
S_path == <<"p", "a", "t", "h">>
S_mime == <<"m", "i", "m", "e">>
S_has == <<"h", "a", "s">>
S_terminal == <<"t", "e", "r", "m", "i", "n", "a", "l">>
S_number == <<"n", "u", "m", "b", "e", "r">>
S_label == <<"l", "a", "b", "e", "l">>
S_flag == <<"f", "l", "a", "g">>
S_X == <<"X">>
S_else == <<"e", "l", "s", "e">>

\* os.path.basename(path)
Basename(path) == SubSeq(path, RFind(path, "/") + 1, Len(path))

\* os.path.abspath(path), for a path without ".", ".." and "//" components
Abspath(path, cwd) ==
    IF StartsWith(path, <<"/">>) THEN path ELSE cwd \o <<"/">> \o path

\* os.path.basename(path).rsplit('.', 1)[-1]
Extension(path) ==
    LET base == Basename(path) IN
    SubSeq(base, RFind(base, ".") + 1, Len(base))

\* ------------------------------------------------------------------------
\* Condition Evaluator.  The evaluation state st is the record of the
\* instance fields _app_flags, _app_label, _skip and _mimetype, and of
\* lookups, the number of times the `file` subprocess has been spawned in
\* this call.  _skip = None is SkipNone: int() of a digit string is never
\* negative.
\* ------------------------------------------------------------------------
SkipNone == -1

\* Rifle._get_mimetype: the value returned and the state it leaves
GetMimetype(st, w) ==
    IF Truthy(st.mimetype)
    THEN [val |-> st.mimetype, st |-> st]
    ELSE [val |-> w.filemime,
          st |-> [st EXCEPT !.mimetype = w.filemime, !.lookups = @ + 1]]

\* Rifle._eval_condition2: res is the truth value of what is returned (a
\* function name that matches no branch falls off the end and returns
\* None, which is false to every caller)
EvalCondition2(rule, files, label, st, w, env) ==
    LET function == rule[1]
        argument == IF Len(rule) > 1 THEN rule[2] ELSE <<>>
    IN
    IF files = <<>> THEN [res |-> FALSE, st |-> st]
    ELSE IF function = S_ext
        THEN [res |-> ReFullMatch(argument, Extension(files[1])), st |-> st]
    ELSE IF function = S_name
        THEN [res |-> ReSearch(argument, Basename(files[1])), st |-> st]
    ELSE IF function = S_path
        THEN [res |-> ReSearch(argument, Abspath(files[1], w.cwd)), st |-> st]
    ELSE IF function = S_mime
        THEN LET m == GetMimetype(st, w) IN
             [res |-> ReSearch(argument, m.val), st |-> m.st]
    ELSE IF function = S_has
        THEN [res |-> argument \in w.executables, st |-> st]
    ELSE IF function = S_terminal
        THEN [res |-> w.tty, st |-> st]
    ELSE IF function = S_number
        THEN [res |-> TRUE,
              st |-> IF IsDigit(argument)
                     THEN [st EXCEPT !.skip = ToInt(argument)]
                     ELSE st]
    ELSE IF function = S_label
        THEN [res |-> IF Truthy(label) THEN argument = label ELSE TRUE,
              st |-> [st EXCEPT !.app_label = argument]]
    ELSE IF function = S_flag
        THEN [res |-> TRUE, st |-> [st EXCEPT !.app_flags = argument]]
    ELSE IF function = S_X
        THEN [res |-> env.DISPLAY # None, st |-> st]
    ELSE IF function = S_else
        THEN [res |-> TRUE, st |-> st]
    ELSE [res |-> FALSE, st |-> st]

\* EvalCondition with the negated form evaluated on the side: its effects
\* on the instance fields are dropped
EvalCondition_negation_drops_effects(condition, files, label, st, w, env) ==
    IF condition = <<>> THEN [res |-> TRUE, st |-> st]
    ELSE IF StartsWith(condition[1], <<"!">>)
        THEN LET new_condition ==
                    <<Tail(condition[1])>> \o Tail(condition)
                 r == EvalCondition2(new_condition, files, label, st, w, env)
             IN  [res |-> ~r.res, st |-> st]
    ELSE EvalCondition2(condition, files, label, st, w, env)

\* Rifle._eval_condition
EvalCondition(condition, files, label, st, w, env) ==
    IF condition = <<>> THEN [res |-> TRUE, st |-> st]
    ELSE IF StartsWith(condition[1], <<"!">>)
        THEN LET new_condition ==
                    <<Tail(condition[1])>> \o Tail(condition)
                 r == EvalCondition2(new_condition, files, label, st, w, env)
             IN  [res |-> ~r.res, st |-> r.st]
    ELSE EvalCondition2(condition, files, label, st, w, env)

\* "for test in tests: if not self._eval_condition(test, files, None):
\* break", from test i on; ok is TRUE when the loop reaches its else branch
RECURSIVE EvalTests(_, _, _, _, _, _)
EvalTests(tests, i, files, st, w, env) ==
    IF i > Len(tests) THEN [ok |-> TRUE, st |-> st]
    ELSE LET r == EvalCondition(tests[i], files, None, st, w, env) IN
         IF ~r.res THEN [ok |-> FALSE, st |-> r.st]
         ELSE EvalTests(tests, i + 1, files, r.st, w, env)

\* ------------------------------------------------------------------------
\* Rule Selector: Rifle.list_commands, a generator.  ListFrom is its loop
\* from rule i on with the local count and the instance fields st; it gives
\* the tuples the generator yields when run to exhaustion, each with the
\* instance fields as they are while the generator is suspended at that
\* yield (rule is the position of the rule in self.rules), and the instance
\* fields left when the loop ends.
\* ------------------------------------------------------------------------
\* ResetState that leaves the flags and the label of the rule before
ResetState_keeps_flags_and_label(st) == [st EXCEPT !.skip = SkipNone]

\* "self._skip = None; self._app_flags = ''; self._app_label = None"
ResetState(st) ==
    [st EXCEPT !.skip = SkipNone, !.app_flags = <<>>, !.app_label = None]

\* NextCount with the skip-target ignored
NextCount_ignores_skip(count, skip) == count + 1

\* the index given to a match: "if self._skip is None: count += 1
\* else: count = self._skip"
NextCount(count, skip) == IF skip = SkipNone THEN count + 1 ELSE skip

RECURSIVE ListFrom(_, _, _, _, _, _, _)
\* the loop after rule i has been evaluated with the result r
ListAfter(rls, i, count, files, r, w, env) ==
    IF r.ok
    THEN LET newcount == NextCount(count, r.st.skip)
             y == [count |-> newcount, cmd |-> rls[i].cmd,
                   label |-> r.st.app_label, flags |-> r.st.app_flags,
                   rule |-> i, st |-> r.st]
             rest == ListFrom(rls, i + 1, newcount, files, r.st, w, env)
         IN  [yields |-> <<y>> \o rest.yields, final |-> rest.final]
    ELSE ListFrom(rls, i + 1, count, files, r.st, w, env)

ListFrom(rls, i, count, files, st, w, env) ==
    IF i > Len(rls) THEN [yields |-> <<>>, final |-> st]
    ELSE ListAfter(rls, i, count, files,
                   EvalTests(rls[i].tests, 1, files, ResetState(st), w, env),
                   w, env)

\* ListCommands with the local count starting at 0 instead of -1
ListCommands_count_from_0(rls, files, mimetype, st, w, env) ==
    ListFrom(rls, 1, 0, files,
             [st EXCEPT !.mimetype = mimetype, !.lookups = 0], w, env)

\* list_commands(files, mimetype) run to exhaustion from instance fields st
ListCommands(rls, files, mimetype, st, w, env) ==
    ListFrom(rls, 1, -1, files,
             [st EXCEPT !.mimetype = mimetype, !.lookups = 0], w, env)

\* ------------------------------------------------------------------------
\* Command Builder: Rifle._apply_flags and Rifle._build_command
\* ------------------------------------------------------------------------
\* the character U+0000
NUL == "\\0"

S_sudo == <<"s", "u", "d", "o", " ">>
S_termcmd_e == <<"$", "T", "E", "R", "M", "C", "M", "D", " ", "-", "e", " ">>
S_setsid == <<"s", "e", "t", "s", "i", "d">>
S_nohup == <<"n", "o", "h", "u", "p">>
S_devnull == <<" ", ">", " ", "/", "d", "e", "v", "/", "n", "u", "l", "l", " ", "2", ">", " ", "/", "d", "e", "v", "/", "n", "u", "l", "l", " ", "&">>
S_rxvt_unicode == <<"r", "x", "v", "t", "-", "u", "n", "i", "c", "o", "d", "e">>
S_urxvt == <<"u", "r", "x", "v", "t">>
S_set == <<"s", "e", "t", " ", "-", "-", " ">>
S_quote_sep == <<"'", " ", "'">>
S_quote_esc == <<"'", "\\", "'", "'">>

NoTerminalCommand ==
    [msg |-> "Can not determine terminal command.", num |-> 0, text |-> <<>>]

\* Rifle._apply_flags: the wrapped action, os.environ as it leaves it, the
\* lines it logs, and raised = TRUE when os.environ['TERM'] raises KeyError
ApplyFlags(action, flags, w, env) ==
    LET a1 == IF Contains(flags, <<"r">>) THEN S_sudo \o action ELSE action
        needterm == Contains(flags, <<"t">>) /\ env.TERMCMD = None
        raised == needterm /\ env.TERM = None
        term == IF ~needterm \/ raised THEN None
                ELSE IF StartsWith(env.TERM, S_rxvt_unicode) THEN S_urxvt
                ELSE env.TERM
        log1 == IF needterm /\ ~raised /\ term \notin w.executables
                THEN <<NoTerminalCommand>> ELSE <<>>
        env1 == IF needterm /\ ~raised
                THEN [env EXCEPT !.TERMCMD = term] ELSE env
        a2 == IF Contains(flags, <<"t">>) THEN S_termcmd_e \o a1 ELSE a1
        a3 == IF Contains(flags, <<"f">>)
              THEN IF S_setsid \in w.executables
                   THEN S_setsid \o <<" ">> \o a2 \o S_devnull
                   ELSE S_nohup \o <<" ">> \o a2 \o S_devnull
              ELSE a2
    IN  [action |-> IF raised THEN None ELSE a3,
         env |-> env1, log |-> log1, raised |-> raised]

\* f.replace("'", "'\\''")
RECURSIVE QuoteEscape(_)
QuoteEscape(f) ==
    IF f = <<>> THEN <<>>
    ELSE (IF Head(f) = "'" THEN S_quote_esc ELSE <<Head(f)>>)
         \o QuoteEscape(Tail(f))

\* "set -- '%s'" % "' '".join(... for f in files if "\x00" not in f) + '\n'
Preamble(files) ==
    LET HasNoNul(f) == Find(f, NUL) = 0
        kept == SelectSeq(files, HasNoNul)
        quoted == [i \in 1..Len(kept) |-> QuoteEscape(kept[i])]
    IN  S_set \o <<"'">> \o Join(S_quote_sep, quoted) \o <<"'", "\n">>

\* the flags _build_command applies: "if isinstance(flags, str):
\* self._app_flags += flags", then squash_flags
MergeFlags(app_flags, flags) ==
    squash_flags(IF flags # None THEN app_flags \o flags ELSE app_flags)

\* Rifle._build_command: the command, the instance fields and os.environ as
\* they are left, the lines logged, and whether it raised
BuildCommand(files, action, flags, st, w, env) ==
    LET merged == MergeFlags(st.app_flags, flags)
        applied == ApplyFlags(action, merged, w, env)
    IN  [command |-> IF applied.raised THEN None
                     ELSE Preamble(files) \o applied.action,
         st |-> [st EXCEPT !.app_flags = merged],
         env |-> applied.env, log |-> applied.log,
         raised |-> applied.raised]

\* ------------------------------------------------------------------------
\* Inputs: configuration lines, file names, labels, flags, worlds
\* ------------------------------------------------------------------------
\* "#c=d": a comment, although it holds the delimiter
Line_comment == <<"#", "c", "=", "d", "\n">>
Line_empty == <<"\n">>
\* a line of whitespace only
Line_blank == <<" ", "\n">>
\* a line without delimiter
Line_bad == <<"z", "z", "\n">>
Line_flag == <<"f", "l", "a", "g", " ", "p", "w", " ", "=", " ", "a", "\n">>
Line_ext_label == <<"e", "x", "t", " ", "j", ",", " ", "l", "a", "b", "e", "l", " ", "v", " ", "=", " ", "b", "\n">>
Line_number == <<"n", "u", "m", "b", "e", "r", " ", "1", " ", "=", " ", "c", "\n">>
Line_label_flag == <<"l", "a", "b", "e", "l", " ", "x", ",", " ", "f", "l", "a", "g", " ", "t", " ", "=", " ", "d", "\n">>
Line_unknown == <<"!", "z", "z", " ", "=", " ", "e", "\n">>
Line_mime == <<"m", "i", "m", "e", " ", "i", ",", " ", "f", "l", "a", "g", " ", "f", " ", "=", " ", "g", "\n">>
Line_flag_fails == <<"f", "l", "a", "g", " ", "r", ",", " ", "e", "x", "t", " ", "q", " ", "=", " ", "h", "\n">>

\* the lines the dispatcher's rules are loaded from
RuleLines ==
    {Line_flag, Line_ext_label, Line_number, Line_label_flag, Line_unknown,
     Line_mime, Line_flag_fails}

\* the lines of the files the loader is exercised with
LoaderLines ==
    {Line_comment, Line_empty, Line_blank, Line_bad, Line_ext_label,
     Line_unknown}

\* every sequence over S of length at most n
SeqsUpTo(S, n) == UNION {[1..k -> S] : k \in 0..n}

RuleFiles == SeqsUpTo(RuleLines, MaxLines)

LoaderFiles == SeqsUpTo(LoaderLines, MaxLines)

FileNames == {<<"a", ".", "j">>}

FileLists == SeqsUpTo(FileNames, MaxFiles)

Numbers == 0..MaxNumber

Labels == {None, <<"x">>}

ExtraFlags == {None, <<"P", "f">>, <<"t">>}

MimeOverrides == {None, <<"i">>}

Unset == [TERMCMD |-> None, TERM |-> None, PAGER |-> None,
          EDITOR |-> None, DISPLAY |-> None]

Worlds ==
    {[executables |-> {<<"x">>, S_setsid}, tty |-> TRUE, filemime |-> <<"i">>,
      cwd |-> <<"/", "h">>,
      environ |-> [Unset EXCEPT !.TERMCMD = <<"y">>, !.PAGER = <<"m">>,
                                !.DISPLAY = <<":", "0">>]],
     [executables |-> {<<"x">>}, tty |-> FALSE, filemime |-> <<>>,
      cwd |-> <<"/", "h">>, environ |-> Unset],
     [executables |-> {}, tty |-> TRUE, filemime |-> <<"i">>,
      cwd |-> <<"/", "h">>,
      environ |-> [Unset EXCEPT !.TERM = S_rxvt_unicode \o <<"-", "2">>,
                                !.EDITOR = <<"v">>]]}

\* the flag strings squash_flags is called with: every string of at most
\* MaxFlags characters out of lowercase letters, uppercase letters and a
\* digit, and the examples of its docstring
FlagChars == {"a", "c", "A", "C", "1"}

FlagStrings ==
    SeqsUpTo(FlagChars, MaxFlags)
        \cup {<<"a", "b", "c">>, <<"a", "b", "c", "C">>,
              <<"C", "a", "b", "c", "A", "d">>}

\* the file names _build_command is called with on its own: a plain name,
\* names with a single quote, with a space and a backslash, and a name that
\* holds a null byte
BuildFileNames ==
    {<<"a">>, <<"b", "'", "c">>, <<"'", " ", "\\">>, <<"e", NUL>>}

BuildFileLists == SeqsUpTo(BuildFileNames, MaxFiles + 1)

\* the flags passed to _build_command and the flags the selected rule left
\* in _app_flags
BuildFlags == {None, <<"f">>}
BuildAppFlags == {<<>>, <<"t">>}

\* the conditions _eval_condition is called with on its own: every
\* recognized function, a function name that is not recognized, each of
\* them negated too, and the empty condition
PlainConditions ==
    {<<S_ext, <<"j">>>>, <<S_name, <<"j">>>>, <<S_path, <<"h">>>>,
     <<S_mime, <<"i">>>>, <<S_has, <<"x">>>>, <<S_terminal>>, <<S_X>>,
     <<S_else>>, <<S_number, <<"1">>>>, <<S_number>>, <<S_label, <<"x">>>>,
     <<S_label, <<"v">>>>, <<S_flag, <<"t">>>>, <<<<"z", "z">>>>}

\* the condition with '!' in front of its function name
Negated(condition) == <<<<"!">> \o condition[1]>> \o Tail(condition)

Conditions ==
    PlainConditions \cup {Negated(c) : c \in PlainConditions} \cup {<<>>}

\* the instance fields _eval_condition is called on: as list_commands sets
\* them before the first test of a rule, without and with a MIME type
\* passed by the caller, and as earlier tests of a rule may have left them
\* (flags, label and skip-target set; a MIME lookup that returned '', a
\* MIME lookup that returned a type)
EvalStates ==
    {[app_flags |-> <<>>, app_label |-> None, skip |-> SkipNone,
      mimetype |-> None, lookups |-> 0],
     [app_flags |-> <<>>, app_label |-> None, skip |-> SkipNone,
      mimetype |-> <<"i">>, lookups |-> 0],
     [app_flags |-> <<"p", "w">>, app_label |-> <<"v">>, skip |-> 0,
      mimetype |-> <<>>, lookups |-> 1],
     [app_flags |-> <<"t">>, app_label |-> <<"x">>, skip |-> 1,
      mimetype |-> <<"i">>, lookups |-> 1]}

\* ------------------------------------------------------------------------
\* State
\* ------------------------------------------------------------------------
VARIABLES
    \* self.rules, and whether the attribute exists (reload_config creates it)
    rules, loaded,
    \* the instance fields _app_flags, _app_label, _skip, _mimetype (with
    \* lookups, see the Condition Evaluator)
    self,
    \* os.environ
    environ,
    \* the position of the execute() call in flight, "idle" when none is
    pc,
    \* the public call in flight or last made, with its arguments
    call,
    \* what execute() selected: the position of the rule in self.rules (0
    \* when no yield was selected) and the flags of its 4-tuple, whether the
    \* label fallback was taken, found_at_least_one, and the command template
    sel,
    \* the local variable command of execute(), None when unresolved
    command,
    \* the tuples the last list_commands() call yielded
    matches,
    \* the hooks run and the processes spawned and waited for by the call
    events,
    \* the shell process: "none", "running", "exited"
    child,
    \* the lines passed to hook_logger by the call
    log,
    \* how the call ended: "none" while in flight, "returned", "raised"
    outcome,
    \* the value returned by the last call of squash_flags, _eval_condition
    \* or _build_command made on its own, None before any
    result,
    \* the content of the tag file and the set self.tags of the Tags instance
    \* (ranger/container/tags.py)
    tagfile, tags

vars == <<rules, loaded, self, environ, pc, call, sel, command, matches,
          events, child, log, outcome, result, tagfile, tags>>

\* the variables the dispatcher's public calls leave alone
direct == <<result, tagfile, tags>>

\* the variables of the Rifle instance's public calls and of the process
\* they spawn
dispatcher == <<rules, loaded, pc, sel, command, matches, events, child>>

NoSel ==
    [rule |-> 0, fallback |-> FALSE, found |-> FALSE, action |-> None,
     flags |-> None]

Init ==
    /\ rules = <<>>
    /\ loaded = FALSE
    /\ self = [app_flags |-> <<>>, app_label |-> None, skip |-> SkipNone,
               mimetype |-> None, lookups |-> 0]
    /\ environ = Unset
    /\ pc = "idle"
    /\ call = [op |-> "__init__"]
    /\ sel = NoSel
    /\ command = None
    /\ matches = <<>>
    /\ events = <<>>
    /\ child = "none"
    /\ log = <<>>
    /\ outcome = "returned"
    /\ result = None
    /\ tagfile = <<>>
    /\ tags = {}

\* ------------------------------------------------------------------------
\* reload_config(config_file).  lines is the content of the file; how is
\* "ok", "open" when open() raises, or "read" when the iteration over the
\* file raises after nread lines have been delivered.
\* ------------------------------------------------------------------------
ReloadConfig(lines, how, nread) ==
    /\ pc = "idle"
    /\ call' = [op |-> "reload_config", lines |-> lines, how |-> how,
                nread |-> nread]
    /\ IF how = "open"
       THEN /\ UNCHANGED <<rules, loaded>>
            /\ log' = <<>>
            /\ outcome' = "raised"
       ELSE LET r == LoadResult(SubSeq(lines, 1, nread)) IN
            /\ rules' = r.rules
            /\ loaded' = TRUE
            /\ log' = r.log
            /\ outcome' = IF how = "ok" THEN "returned" ELSE "raised"
    /\ sel' = NoSel
    /\ command' = None
    /\ matches' = <<>>
    /\ events' = <<>>
    /\ child' = "none"
    /\ UNCHANGED <<self, environ, pc>>
    /\ UNCHANGED direct

\* reload_config on a file of LoaderFiles, at any time between calls
Reload ==
    \/ \E lines \in LoaderFiles :
        \/ ReloadConfig(lines, "ok", Len(lines))
        \/ \E nread \in 0..(Len(lines) - 1) : ReloadConfig(lines, "read", nread)
    \/ ReloadConfig(<<>>, "open", 0)

\* main(): the configuration is loaded once, right after construction
LoadRules ==
    /\ call.op = "__init__"
    /\ \E lines \in RuleFiles : ReloadConfig(lines, "ok", Len(lines))

\* ------------------------------------------------------------------------
\* list_commands(files, mimetype) consumed to the end, as main() does for
\* its -l option.  As in main(), one list_commands or execute call follows
\* the loading of the configuration.
\* ------------------------------------------------------------------------
\* the 4-tuple (count, command, label, flags) of a yield, with the position
\* of its rule and the _skip its rule left
Match(y) ==
    [count |-> y.count, cmd |-> y.cmd, label |-> y.label, flags |-> y.flags,
     rule |-> y.rule, skip |-> y.st.skip]

\* the tuples of a finished list_commands call and the fields it leaves
Yielded(scan) ==
    /\ matches' = [i \in 1..Len(scan.yields) |-> Match(scan.yields[i])]
    /\ self' = scan.final

ListCommandsCall(files, mimetype, w) ==
    /\ pc = "idle"
    /\ call.op = "reload_config"
    /\ loaded
    /\ Yielded(ListCommands(rules, files, mimetype, self, w, w.environ))
    /\ call' = [op |-> "list_commands", files |-> files,
                mimetype |-> mimetype, world |-> w]
    /\ environ' = w.environ
    /\ sel' = NoSel
    /\ command' = None
    /\ events' = <<>>
    /\ child' = "none"
    /\ log' = <<>>
    /\ outcome' = "returned"
    /\ UNCHANGED <<rules, loaded, pc>>
    /\ UNCHANGED direct

\* ------------------------------------------------------------------------
\* Dispatch Driver: Rifle.execute
\* ------------------------------------------------------------------------
DEFAULT_PAGER == <<"l", "e", "s", "s">>
DEFAULT_EDITOR == <<"n", "a", "n", "o">>

S_fallback_args == <<" ", "-", "-", " ", "\"", "$", "@", "\"">>

LabelUndefined(label) ==
    [msg |-> "Label is undefined", num |-> 0, text |-> label]
MethodUndefined(number) ==
    [msg |-> "Method number is undefined.", num |-> number, text |-> <<>>]
NoActionFound ==
    [msg |-> "No action found.", num |-> 0, text |-> <<>>]

\* the condition of the loop of execute(): "label and label == lbl or
\* not label and count == number"
Selected(y, number, label) ==
    \/ Truthy(label) /\ label = y.label
    \/ ~Truthy(label) /\ y.count = number

\* the position in ys of the first yield at which the loop breaks, 0 when
\* the loop runs to its end
RECURSIVE FirstSelected(_, _, _, _)
FirstSelected(ys, i, number, label) ==
    IF i > Len(ys) THEN 0
    ELSE IF Selected(ys[i], number, label) THEN i
    ELSE FirstSelected(ys, i + 1, number, label)

\* "Determine command" once list_commands has run: the loop breaks at
\* yield k of scan, or runs to its end and enters its else branch (k = 0).
\* The loop variable `flags` overwrites the parameter `flags` at every
\* iteration.
DetermineAt(scan, k, files, label, flags, w, env) ==
    IF k > 0
    THEN [build |-> BuildCommand(files, scan.yields[k].cmd,
                                 scan.yields[k].flags, scan.yields[k].st,
                                 w, env),
          sel |-> [rule |-> scan.yields[k].rule, fallback |-> FALSE,
                   found |-> k > 1, action |-> scan.yields[k].cmd,
                   flags |-> scan.yields[k].flags]]
    ELSE
        LET ys == scan.yields
            loopflags == IF ys # <<>> THEN ys[Len(ys)].flags ELSE flags
        IN
        IF Truthy(label) /\ label \in w.executables
        THEN [build |-> BuildCommand(files, label \o S_fallback_args,
                                     loopflags, scan.final, w, env),
              sel |-> [rule |-> 0, fallback |-> TRUE, found |-> ys # <<>>,
                       action |-> label \o S_fallback_args, flags |-> None]]
        ELSE [build |-> [command |-> None, st |-> scan.final, env |-> env,
                         log |-> <<>>, raised |-> FALSE],
              sel |-> [rule |-> 0, fallback |-> FALSE, found |-> ys # <<>>,
                       action |-> None, flags |-> None]]

DetermineFrom(scan, files, number, label, flags, w, env) ==
    DetermineAt(scan, FirstSelected(scan.yields, 1, number, label),
                files, label, flags, w, env)

\* "Determine command": the loop over list_commands and its else branch
DetermineCommand(files, number, label, flags, mimetype, st, w, env) ==
    DetermineFrom(ListCommands(rules, files, mimetype, st, w, env),
                  files, number, label, flags, w, env)

\* the line logged when command is None
Diagnostic(found, number, label) ==
    IF found
    THEN IF Truthy(label) THEN LabelUndefined(label)
         ELSE MethodUndefined(number)
    ELSE NoActionFound

\* PAGER and EDITOR get their defaults when absent
WithDefaults(env) ==
    [env EXCEPT !.PAGER = IF @ = None THEN DEFAULT_PAGER ELSE @,
                !.EDITOR = IF @ = None THEN DEFAULT_EDITOR ELSE @]

\* execute() once the command is determined (lines 264-279): d is what
\* "Determine command" left
Dispatch(d, number, label) ==
    /\ sel' = d.sel
    /\ self' = d.build.st
    /\ command' = d.build.command
    /\ IF d.build.raised
       THEN /\ environ' = d.build.env
            /\ log' = d.build.log
            /\ events' = <<>>
            /\ outcome' = "raised"
            /\ pc' = "idle"
       ELSE IF d.build.command = None
       THEN /\ environ' = d.build.env
            /\ log' = d.build.log
                      \o <<Diagnostic(d.sel.found, number, label)>>
            /\ events' = <<>>
            /\ outcome' = "returned"
            /\ pc' = "idle"
       ELSE /\ environ' = WithDefaults(d.build.env)
            /\ log' = d.build.log
            /\ events' = <<"hook_before_executing">>
            /\ outcome' = "none"
            /\ pc' = "Popen"

\* execute() from its entry to hook_before_executing (lines 248-279)
Execute(files, number, label, flags, mimetype, w) ==
    /\ pc = "idle"
    /\ call.op = "reload_config"
    /\ loaded
    /\ call' = [op |-> "execute", files |-> files, number |-> number,
                label |-> label, flags |-> flags, mimetype |-> mimetype,
                world |-> w]
    /\ Dispatch(DetermineCommand(files, number, label, flags, mimetype,
                                 self, w, w.environ), number, label)
    /\ matches' = <<>>
    /\ child' = "none"
    /\ UNCHANGED <<rules, loaded>>
    /\ UNCHANGED direct

\* the finally clause: hook_after_executing runs and execute() is left
Finally(evs) == Append(evs, "hook_after_executing")

\* Popen(command, ..., shell=True) starts the shell
Popen ==
    /\ pc = "Popen"
    /\ events' = Append(events, "Popen")
    /\ child' = "running"
    /\ pc' = "wait"
    /\ UNCHANGED <<rules, loaded, self, environ, call, sel, command, matches,
                   log, outcome>>
    /\ UNCHANGED direct

\* Popen raises (OSError): no process; the finally clause runs and the
\* exception propagates
PopenRaises ==
    /\ pc = "Popen"
    /\ events' = Finally(Append(events, "Popen raised"))
    /\ outcome' = "raised"
    /\ pc' = "idle"
    /\ UNCHANGED <<rules, loaded, self, environ, call, sel, command, matches,
                   child, log>>
    /\ UNCHANGED direct

\* the shell process ends while execute() waits for it
ChildExits ==
    /\ pc = "wait"
    /\ child = "running"
    /\ child' = "exited"
    /\ UNCHANGED <<rules, loaded, self, environ, pc, call, sel, command,
                   matches, events, log, outcome>>
    /\ UNCHANGED direct

\* Wait without waiting: it returns while the child may still run
Wait_returns_early ==
    /\ pc = "wait"
    /\ events' = Finally(Append(events, "wait"))
    /\ outcome' = "returned"
    /\ pc' = "idle"
    /\ UNCHANGED <<rules, loaded, self, environ, call, sel, command, matches,
                   child, log>>
    /\ UNCHANGED direct

\* p.wait() returns once the child has exited; the finally clause runs and
\* execute() returns
Wait ==
    /\ pc = "wait"
    /\ child = "exited"
    /\ events' = Finally(Append(events, "wait"))
    /\ outcome' = "returned"
    /\ pc' = "idle"
    /\ UNCHANGED <<rules, loaded, self, environ, call, sel, command, matches,
                   child, log>>
    /\ UNCHANGED direct

\* p.wait() raises (KeyboardInterrupt, OSError) while the child runs; the
\* finally clause runs and the exception propagates
WaitRaises ==
    /\ pc = "wait"
    /\ child = "running"
    /\ events' = Finally(Append(events, "wait raised"))
    /\ outcome' = "raised"
    /\ pc' = "idle"
    /\ UNCHANGED <<rules, loaded, self, environ, call, sel, command, matches,
                   child, log>>
    /\ UNCHANGED direct

ListCall ==
    \E files \in FileLists, mimetype \in MimeOverrides, w \in Worlds :
        ListCommandsCall(files, mimetype, w)

ExecuteCall ==
    \E files \in FileLists, number \in Numbers, label \in Labels,
       flags \in ExtraFlags, mimetype \in MimeOverrides, w \in Worlds :
        Execute(files, number, label, flags, mimetype, w)

Next ==
    \/ LoadRules
    \/ ListCall
    \/ ExecuteCall
    \/ Popen
    \/ PopenRaises
    \/ ChildExits
    \/ Wait
    \/ WaitRaises

Spec == Init /\ [][Next]_vars

\* the loader alone: any sequence of reload_config calls
NextLoad == Reload

SpecLoad == Init /\ [][NextLoad]_vars

\* ------------------------------------------------------------------------
\* _eval_condition(condition, files, label) called on its own, on an
\* instance whose fields are st
\* ------------------------------------------------------------------------
\* what the call leaves: the instance fields and the value returned
Evaluated(r) ==
    /\ self' = r.st
    /\ result' = r.res

EvalConditionCall(condition, files, label, st, w) ==
    /\ call.op = "__init__"
    /\ Evaluated(EvalCondition(condition, files, label, st, w, w.environ))
    /\ call' = [op |-> "_eval_condition", condition |-> condition,
                files |-> files, label |-> label, world |-> w,
                before |-> st]
    /\ environ' = w.environ
    /\ log' = <<>>
    /\ outcome' = "returned"
    /\ UNCHANGED <<dispatcher, tagfile, tags>>

NextEval ==
    \E condition \in Conditions, files \in FileLists, label \in Labels,
       st \in EvalStates, w \in Worlds :
        EvalConditionCall(condition, files, label, st, w)

SpecEval == Init /\ [][NextEval]_vars

\* ------------------------------------------------------------------------
\* squash_flags(flags) called on its own, and called again on what it
\* returned
\* ------------------------------------------------------------------------
SquashFlagsCall(flags) ==
    /\ call.op \in {"__init__", "squash_flags"}
    /\ result' = squash_flags(flags)
    /\ call' = [op |-> "squash_flags", flags |-> flags, first |-> flags,
                again |-> FALSE]
    /\ UNCHANGED <<dispatcher, self, environ, log, outcome, tagfile, tags>>

SquashFlagsAgain ==
    /\ call.op = "squash_flags"
    /\ result' = squash_flags(result)
    /\ call' = [op |-> "squash_flags", flags |-> result,
                first |-> call.first, again |-> TRUE]
    /\ UNCHANGED <<dispatcher, self, environ, log, outcome, tagfile, tags>>

NextFlags ==
    \/ \E flags \in FlagStrings : SquashFlagsCall(flags)
    \/ SquashFlagsAgain

SpecFlags == Init /\ [][NextFlags]_vars

\* ------------------------------------------------------------------------
\* Tags (ranger/container/tags.py): a set of strings kept in a file, one
\* per line.  The model covers an instance constructed on a file that does
\* not exist yet in an existing directory (Init: the file is created empty
\* and read), and calls in which the file can be opened; no other process
\* writes the file.
\* ------------------------------------------------------------------------
\* "for line in f": the lines of a text, each with its newline when it has
\* one
RECURSIVE FileLines(_)
FileLines(text) ==
    IF text = <<>> THEN <<>>
    ELSE LET i == Find(text, "\n") IN
         IF i = 0 THEN <<text>>
         ELSE <<SubSeq(text, 1, i)>> \o FileLines(SubSeq(text, i + 1, Len(text)))

\* Tags._parse: the set of the stripped lines
Tags_parse(text) ==
    {Strip(FileLines(text)[i]) : i \in 1..Len(FileLines(text))}

\* Tags._compile: line + '\n' written for each tag, in the order in which
\* the set is iterated
RECURSIVE Tags_compile(_)
Tags_compile(order) ==
    IF order = <<>> THEN <<>>
    ELSE Head(order) \o <<"\n">> \o Tags_compile(Tail(order))

\* the orders in which a set may be iterated
Orders(S) ==
    {o \in [1..Cardinality(S) -> S] :
        \A i \in DOMAIN o, j \in DOMAIN o : o[i] = o[j] => i = j}

\* Tags.sync: the set read from the file
Tags_sync(text) == Tags_parse(text)

\* Tags.dump: the file is rewritten from the set t
Tags_dump(t) == \E order \in Orders(t) : tagfile' = Tags_compile(order)

\* "for item in items: self.tags.add(item)"
AddItems(items, t) == t \cup {items[i] : i \in 1..Len(items)}

\* "for item in items: try: self.tags.remove(item) except KeyError: pass"
RemoveItems(items, t) == t \ {items[i] : i \in 1..Len(items)}

\* the loop of Tags.toggle
RECURSIVE ToggleItems(_, _)
ToggleItems(items, t) ==
    IF items = <<>> THEN t
    ELSE ToggleItems(Tail(items),
                     IF Head(items) \in t THEN t \ {Head(items)}
                     ELSE t \cup {Head(items)})

\* the calls after which a method of the Tags instance is called
TagsOps == {"__init__", "add", "remove", "toggle"}

\* a call of add, remove or toggle that leaves the set t; the call keeps
\* the set of the instance and the set in the file of before it
TagsCall(op, items, t) ==
    /\ tags' = t
    /\ Tags_dump(t)
    /\ call' = [op |-> op, items |-> items, tags |-> tags,
                fresh |-> Tags_parse(tagfile)]
    /\ UNCHANGED <<dispatcher, self, environ, log, outcome, result>>

Tags_add(items) ==
    /\ call.op \in TagsOps
    /\ TagsCall("add", items, AddItems(items, Tags_sync(tagfile)))

Tags_remove(items) ==
    /\ call.op \in TagsOps
    /\ TagsCall("remove", items, RemoveItems(items, Tags_sync(tagfile)))

Tags_toggle(items) ==
    /\ call.op \in TagsOps
    /\ TagsCall("toggle", items, ToggleItems(items, Tags_sync(tagfile)))

\* the tokens: two plain names and a name that ends with a space
TagTokens == {<<"a">>, <<"b">>, <<"a", " ">>}

TagItems == SeqsUpTo(TagTokens, MaxItems)

NextTags ==
    \/ \E items \in TagItems : Tags_add(items)
    \/ \E items \in TagItems : Tags_remove(items)
    \/ \E items \in TagItems : Tags_toggle(items)

SpecTags == Init /\ [][NextTags]_vars

\* ------------------------------------------------------------------------
\* _build_command(files, action, flags) called on its own, on an instance
\* whose _app_flags are those of the rule evaluated last
\* ------------------------------------------------------------------------
\* the call once _build_command has run with the outcome b
Built(b) ==
    /\ self' = b.st
    /\ result' = b.command
    /\ environ' = b.env
    /\ log' = b.log
    /\ outcome' = IF b.raised THEN "raised" ELSE "returned"

BuildCommandCall(files, action, flags, app_flags, w) ==
    /\ call.op \in {"__init__", "_build_command"}
    /\ Built(BuildCommand(files, action, flags,
                          [self EXCEPT !.app_flags = app_flags], w,
                          w.environ))
    /\ call' = [op |-> "_build_command", files |-> files, action |-> action,
                flags |-> flags, app_flags |-> app_flags, world |-> w]
    /\ UNCHANGED <<dispatcher, tagfile, tags>>

NextBuild ==
    \E files \in BuildFileLists, flags \in BuildFlags,
       app_flags \in BuildAppFlags, w \in Worlds :
        BuildCommandCall(files, <<"x">>, flags, app_flags, w)

SpecBuild == Init /\ [][NextBuild]_vars

\* ========================================================================
\* Properties
\* ========================================================================
\* the instance fields at the start of a rule's evaluation in a call with
\* the given MIME type override
FreshState(mimetype) ==
    [app_flags |-> <<>>, app_label |-> None, skip |-> SkipNone,
     mimetype |-> mimetype, lookups |-> 0]

\* rule i of self.rules evaluated on its own against the arguments and the
\* world of the call in flight
Alone(i) ==
    EvalTests(rules[i].tests, 1, call.files, FreshState(call.mimetype),
              call.world, call.world.environ)

\* the rules whose conditions all hold
Holding == {i \in 1..Len(rules) : Alone(i).ok}

\* a condition of the rule names the function `number`, negated or not
HasNumber(rule) ==
    \E t \in 1..Len(rule.tests) :
        /\ rule.tests[t] # <<>>
        /\ rule.tests[t][1] \in {S_number, <<"!">> \o S_number}

NoNumberCondition == \A i \in 1..Len(rules) : ~HasNumber(rules[i])

ExecuteStarted == call.op = "execute"

\* the execute() call has ended, by returning or by raising
ExecuteEnded == call.op = "execute" /\ pc = "idle"

Listed == call.op = "list_commands"

\* C1: when execute() selects a matching rule and the caller passed extra
\* flags, the flags applied to the command are squash_flags(the rule's flags
\* followed by the caller's flags): rule flags "pw" with caller flags "Pf"
\* give "wf".
C1_CallerFlagsMerged ==
    (ExecuteStarted /\ sel.rule > 0 /\ call.flags # None)
        => self.app_flags = squash_flags(sel.flags \o call.flags)

\* C2: when no rule carries a `number` condition, list_commands yields the
\* matching rules, all of them, in the order of the configuration file, and
\* execute() with number=0 and no label takes its command from the earliest
\* rule whose conditions all hold, never from a later one.
C2_EarliestRuleWins ==
    NoNumberCondition =>
        /\ Listed =>
            /\ {matches[p].rule : p \in 1..Len(matches)} = Holding
            /\ \A p \in 1..Len(matches), q \in 1..Len(matches) :
                   p < q => matches[p].rule < matches[q].rule
            /\ \A p \in 1..Len(matches) :
                   matches[p].cmd = rules[matches[p].rule].cmd
        /\ (ExecuteStarted /\ call.number = 0 /\ call.label = None) =>
            IF Holding = {}
            THEN sel.rule = 0 /\ command = None
            ELSE /\ sel.rule \in Holding
                 /\ \A i \in Holding : sel.rule <= i
                 /\ sel.action = rules[sel.rule].cmd

\* C2 witness: two rules without `number` both match, and execute() with
\* number=0 and no label has built its command from the first
C2_Witness ==
    /\ NoNumberCondition
    /\ ExecuteStarted /\ call.number = 0 /\ call.label = None
    /\ Holding = {1, 2}
    /\ sel.rule = 1
    /\ command # None

\* C3 as stated: a match whose rule set a skip-target has that skip-target
\* as its index, and every other match has as index the number of matches
\* reported before it.
C3_IndexCountsEarlierMatches ==
    Listed =>
        \A p \in 1..Len(matches) :
            IF matches[p].skip # SkipNone
            THEN matches[p].count = matches[p].skip
            ELSE matches[p].count = p - 1

\* C3 amended: a match whose rule set a skip-target has that skip-target as
\* its index; every other match has the index of the match reported before
\* it plus one, and 0 when it is the first match; rules that fail lie
\* between the matches and change no index.
C3_IndexFollowsPreviousMatch ==
    Listed =>
        /\ {matches[p].rule : p \in 1..Len(matches)} = Holding
        /\ \A p \in 1..Len(matches) :
            IF matches[p].skip # SkipNone
            THEN matches[p].count = matches[p].skip
            ELSE matches[p].count =
                    IF p = 1 THEN 0 ELSE matches[p - 1].count + 1

\* C3 witness: a match with a skip-target is followed by a match without,
\* with a failing rule somewhere in the list or not
C3_Witness ==
    /\ Listed
    /\ Len(matches) >= 2
    /\ matches[1].skip # SkipNone
    /\ matches[2].skip = SkipNone
    /\ matches[2].count = matches[1].skip + 1

\* Popen was called by the execute() call
Spawned == \E e \in 1..Len(events) : events[e] \in {"Popen", "Popen raised"}

\* a command was resolved: a match was selected or the label fallback applied
Resolved == sel.rule > 0 \/ sel.fallback

\* C4: a process is spawned if and only if a command was resolved; when none
\* is resolved execute() returns without raising, runs no hook, spawns
\* nothing and logs exactly one line: the "undefined" message for the label
\* or the method number when some rule produced a match, "No action found."
\* when none did.
C4_SpawnIffResolved ==
    ExecuteEnded =>
        /\ Spawned <=> Resolved
        /\ ~Resolved =>
            /\ outcome = "returned"
            /\ events = <<>>
            /\ child = "none"
            /\ log = << IF Holding = {} THEN NoActionFound
                        ELSE IF Truthy(call.label)
                             THEN LabelUndefined(call.label)
                             ELSE MethodUndefined(call.number) >>

\* the matching rules that carry the label of the call
Labelled == {i \in Holding : Alone(i).st.app_label = call.label}

\* C5: when execute() is called with a label L that no match carries and L
\* is an executable, a command built from the template L -- "$@" with the
\* files as positional parameters is spawned; the fallback is taken only
\* when no match carries L, a rule labelled L taking precedence.
C5_LabelFallback ==
    (ExecuteEnded /\ Truthy(call.label)) =>
        /\ (Labelled = {} /\ call.label \in call.world.executables) =>
            /\ Spawned
            /\ sel.fallback
            /\ sel.action = call.label \o S_fallback_args
            /\ command # None
            /\ StartsWith(command, Preamble(call.files))
        /\ sel.fallback => Labelled = {}
        /\ Labelled # {} => sel.rule \in Labelled

EventsReturned ==
    <<"hook_before_executing", "Popen", "wait", "hook_after_executing">>
EventsPopenRaised ==
    <<"hook_before_executing", "Popen raised", "hook_after_executing">>
EventsWaitRaised ==
    <<"hook_before_executing", "Popen", "wait raised",
      "hook_after_executing">>

\* C6: an execute() call that resolved a command runs the pre-execution
\* hook once, then spawns, then waits, then runs the post-execution hook
\* once, then returns; the post-execution hook runs exactly once also when
\* the spawn or the wait raises, and execute() never returns normally before
\* the child has exited.
C6_HookOrder ==
    (ExecuteStarted /\ command # None) =>
        /\ pc = "Popen" => events = <<"hook_before_executing">> /\ child = "none"
        /\ pc = "wait" =>
            /\ events = <<"hook_before_executing", "Popen">>
            /\ child # "none"
        /\ pc = "idle" =>
            /\ outcome = "returned" =>
                events = EventsReturned /\ child = "exited"
            /\ outcome = "raised" =>
                events \in {EventsPopenRaised, EventsWaitRaised}
            /\ outcome \in {"returned", "raised"}

\* C6 witness: the wait raised while the child ran, the post-execution hook
\* ran once after it and the exception left execute()
C6_Witness ==
    /\ ExecuteEnded
    /\ command # None
    /\ outcome = "raised"
    /\ events = EventsWaitRaised
    /\ child = "running"

\* ------------------------------------------------------------------------
\* Properties of the loader, checked under SpecLoad
\* ------------------------------------------------------------------------
Reloaded == call.op = "reload_config" /\ call.how = "ok"

\* the kinds of line of a configuration file
IsCommentLine(l) == StartsWith(l, <<"#">>)
IsEmptyLine(l) == l = <<"\n">>
IsValidLine(l) ==
    ~IsCommentLine(l) /\ ~IsEmptyLine(l) /\ Find(l, delimiter1) # 0
IsMalformedLine(l) ==
    /\ ~IsCommentLine(l)
    /\ Strip(l) # <<>>
    /\ Find(l, delimiter1) = 0

\* the positions of the lines of the file that satisfy P, in file order
Positions(lines, P(_)) ==
    LET Sat(i) == P(lines[i]) IN
    SelectSeq([i \in 1..Len(lines) |-> i], Sat)

RecognizedFunctions ==
    {S_ext, S_name, S_path, S_mime, S_has, S_terminal, S_X, S_else,
     S_number, S_label, S_flag}

\* the function name of a condition is recognized, negated or not
Recognized(condition) ==
    \/ condition = <<>>
    \/ condition[1] \in RecognizedFunctions
    \/ /\ StartsWith(condition[1], <<"!">>)
       /\ Tail(condition[1]) \in RecognizedFunctions

\* C7: a line whose condition list holds a function name outside the
\* recognized set is rejected by reload_config: it gets a diagnostic and is
\* not added to the rule list, so that no rule of the list carries an
\* unrecognized function name.
C7_UnknownFunctionRejected ==
    Reloaded =>
        /\ \A r \in 1..Len(rules) :
               \A t \in 1..Len(rules[r].tests) :
                   Recognized(rules[r].tests[t])
        /\ \A i \in 1..Len(call.lines) :
               (/\ IsValidLine(call.lines[i])
                /\ \E t \in 1..Len(ParseRule(Strip(call.lines[i])).tests) :
                       ~Recognized(ParseRule(Strip(call.lines[i])).tests[t]))
                   => log # <<>>

\* every line of the file is a comment, empty, valid or malformed
OnlyKnownKinds(lines) ==
    \A i \in 1..Len(lines) :
        \/ IsCommentLine(lines[i])
        \/ IsEmptyLine(lines[i])
        \/ IsValidLine(lines[i])
        \/ IsMalformedLine(lines[i])

\* C8: for a file of comment lines, empty lines, valid lines and malformed
\* lines, reload_config is not stopped by a malformed line: the rule list
\* holds one rule per valid line, in file order, and one diagnostic is
\* logged per malformed line.
C8_OneRulePerValidLine ==
    (Reloaded /\ OnlyKnownKinds(call.lines)) =>
        LET valid == Positions(call.lines, IsValidLine)
            malformed == Positions(call.lines, IsMalformedLine)
        IN  /\ outcome = "returned"
            /\ Len(rules) = Len(valid)
            /\ \A k \in 1..Len(valid) :
                   rules[k] = ParseRule(Strip(call.lines[valid[k]]))
            /\ Len(log) = Len(malformed)
            /\ \A k \in 1..Len(log) : log[k].msg = "Syntax error"

\* C8 witness: a malformed line comes before a valid line; the rule of the
\* valid line is loaded and one diagnostic is logged
C8_Witness ==
    /\ Reloaded
    /\ Len(call.lines) = 2
    /\ IsMalformedLine(call.lines[1])
    /\ IsValidLine(call.lines[2])
    /\ Len(rules) = 1
    /\ Len(log) = 1

\* the lines reload_config logs: neither skipped nor holding the delimiter
IsLoggedLine(l) ==
    ~IsCommentLine(l) /\ ~IsEmptyLine(l) /\ Find(Strip(l), delimiter1) = 0

\* C9: the line number of each syntax diagnostic is the 1-based position of
\* its line in the file, whatever comment and empty lines precede it.
C9_DiagnosticLineNumber ==
    (Reloaded /\ OnlyKnownKinds(call.lines)) =>
        LET logged == Positions(call.lines, IsLoggedLine) IN
        /\ Len(log) = Len(logged)
        /\ \A k \in 1..Len(log) : log[k].num = logged[k]

\* C10: a reload that fails raises and leaves the rule list as it was before
\* the call, never empty or holding part of the new file.
C10_FailedReloadKeepsRules ==
    [][(call'.op = "reload_config" /\ call'.how # "ok")
          => (outcome' = "raised" /\ rules' = rules)]_vars

\* ------------------------------------------------------------------------
\* Properties of the MIME cache, checked under Spec
\* ------------------------------------------------------------------------
\* C11: within one list_commands or execute call the `file` subprocess is
\* spawned at most once, whatever the rules and whatever the lookup returns,
\* and not at all when the caller passed a MIME type.
C11_MimeLookupAtMostOnce ==
    (Listed \/ ExecuteStarted) =>
        /\ self.lookups <= 1
        /\ call.mimetype # None => self.lookups = 0

\* ------------------------------------------------------------------------
\* Properties of the condition evaluator, checked under SpecEval
\* ------------------------------------------------------------------------
EvalCalled == call.op = "_eval_condition"

\* the call was made with a negated condition '!C'
EvaluatedNegated ==
    /\ EvalCalled
    /\ call.condition # <<>>
    /\ StartsWith(call.condition[1], <<"!">>)

\* the condition C of a negated condition '!C'
Plain(condition) == <<Tail(condition[1])>> \o Tail(condition)

\* C evaluated in place of the '!C' of the last call: same files, same
\* label, same world, same instance fields before the call
PlainOutcome ==
    EvalCondition(Plain(call.condition), call.files, call.label, call.before,
                  call.world, call.world.environ)

\* C12: for every condition C (a function name, recognized or not, with or
\* without argument) and every file list, the empty one included,
\* evaluating '!C' returns the opposite truth value of evaluating C and
\* leaves the instance fields _app_flags, _app_label, _skip and _mimetype
\* (and the number of MIME lookups made) exactly as evaluating C leaves
\* them.
C12_NegationInvertsOnly ==
    EvaluatedNegated =>
        /\ result = ~PlainOutcome.res
        /\ self = PlainOutcome.st

\* C12 witness: '!flag t' was evaluated on a file: it returned false and
\* set the flags, which were not "t" before
C12_Witness ==
    /\ EvaluatedNegated
    /\ call.condition = Negated(<<S_flag, <<"t">>>>)
    /\ call.files # <<>>
    /\ call.before.app_flags # <<"t">>
    /\ result = FALSE
    /\ self.app_flags = <<"t">>

\* the function name of a condition with its '!' removed, and its argument
FunctionOf(condition) ==
    IF StartsWith(condition[1], <<"!">>) THEN Tail(condition[1])
    ELSE condition[1]
ArgumentOf(condition) == IF Len(condition) > 1 THEN condition[2] ELSE <<>>

\* C13: `else`, `flag` and `number` evaluate to true for every file list,
\* the empty one included, and `flag`, `number` (with a digit argument) and
\* `label` apply their side effect whenever they are evaluated, negated or
\* not.
C13_TrueForEveryFileList ==
    (EvalCalled /\ call.condition # <<>>) =>
        /\ call.condition[1] \in {S_else, S_flag, S_number} => result = TRUE
        /\ FunctionOf(call.condition) = S_flag
              => self.app_flags = ArgumentOf(call.condition)
        /\ FunctionOf(call.condition) = S_label
              => self.app_label = ArgumentOf(call.condition)
        /\ (/\ FunctionOf(call.condition) = S_number
            /\ IsDigit(ArgumentOf(call.condition)))
              => self.skip = ToInt(ArgumentOf(call.condition))

\* ------------------------------------------------------------------------
\* Properties of squash_flags, checked under SpecFlags
\* ------------------------------------------------------------------------
Squashed == call.op = "squash_flags"

\* the uppercase letters present in a flag string, with their lowercase
\* counterparts
CasePairs(flags) ==
    UNION {{flags[i], Lower(flags[i])} :
           i \in {j \in 1..Len(flags) : flags[j] \in UpperLetters}}

\* the flag string without the characters of S, the others in input order
Without(flags, S) ==
    LET Keep(f) == f \notin S IN SelectSeq(flags, Keep)

\* C14: squash_flags removes exactly the occurrences of each uppercase
\* letter present in the input and of its lowercase counterpart; every other
\* character of the input is kept, with its multiplicity and in input
\* order.
C14_SquashRemovesCasePairs ==
    Squashed => result = Without(call.flags, CasePairs(call.flags))

\* C15: squash_flags is idempotent: applied to what it returned, it returns
\* its argument.
C15_SquashIdempotent ==
    (Squashed /\ call.again) => result = call.flags

\* C15 witness: squash_flags('CabcAd') returned 'bd', and squash_flags('bd')
\* returned 'bd'
C15_Witness ==
    /\ Squashed
    /\ call.again
    /\ call.first = <<"C", "a", "b", "c", "A", "d">>
    /\ call.flags = <<"b", "d">>
    /\ result = <<"b", "d">>

\* ------------------------------------------------------------------------
\* Properties of the tag set, checked under SpecTags
\* ------------------------------------------------------------------------
TagsMutated == call.op \in {"add", "remove", "toggle"}

\* the set a fresh Tags instance opened on the file holds
FreshTags == Tags_parse(tagfile)

\* a step that is the second of two toggle(x) in a row, for one token x
SecondToggle ==
    /\ call.op = "toggle"
    /\ call'.op = "toggle"
    /\ Len(call.items) = 1
    /\ call'.items = call.items

\* C16: after any sequence of add, remove and toggle, a fresh instance
\* opened on the file holds the same set as the instance; toggle(x) removes
\* x when the instance held it and adds it when not; toggle(x) twice in a
\* row restores the set of the instance and the set of the file.
C16_TagRoundTrip ==
    /\ [](TagsMutated =>
            /\ FreshTags = tags
            /\ (call.op = "toggle" /\ Len(call.items) = 1) =>
                  (call.items[1] \in tags <=> call.items[1] \notin call.tags))
    /\ [][SecondToggle =>
            /\ tags' = call.tags
            /\ FreshTags' = call.fresh]_vars

\* ------------------------------------------------------------------------
\* Properties of the rule selector and of the label fallback, checked under
\* Spec
\* ------------------------------------------------------------------------
\* the positions of the conditions of a rule that name the function fn
ConditionsNaming(tests, fn) ==
    {t \in 1..Len(tests) : tests[t] # <<>> /\ tests[t][1] = fn}

\* the argument of the last condition of a rule that names the function fn,
\* and default when the rule has none
LastArgument(tests, fn, default) ==
    IF ConditionsNaming(tests, fn) = {} THEN default
    ELSE ArgumentOf(tests[CHOOSE t \in ConditionsNaming(tests, fn) :
                              \A u \in ConditionsNaming(tests, fn) : u <= t])

\* C17: every Match yielded by list_commands depends on its own rule only:
\* its flags are the argument of the last `flag` condition of its rule ('' if
\* it has none), its label is the argument of the last `label` condition of
\* its rule (None if it has none), and its skip-target is the one its rule
\* set; nothing set while an earlier rule was evaluated, matching or failing,
\* appears in it.
C17_MatchFromOwnRule ==
    Listed =>
        \A p \in 1..Len(matches) :
            /\ matches[p].flags =
                   LastArgument(rules[matches[p].rule].tests, S_flag, <<>>)
            /\ matches[p].label =
                   LastArgument(rules[matches[p].rule].tests, S_label, None)
            /\ matches[p].skip = Alone(matches[p].rule).st.skip

\* C17 witness: the first rule set flags and failed, the second rule has
\* neither `flag` nor `label` and matched: its Match has no flags, no label
C17_Witness ==
    /\ Listed
    /\ Len(rules) = 2
    /\ LastArgument(rules[1].tests, S_flag, <<>>) # <<>>
    /\ Alone(1).st.app_flags # <<>>
    /\ ~Alone(1).ok
    /\ Len(matches) = 1
    /\ matches[1].rule = 2
    /\ matches[1].flags = <<>>
    /\ matches[1].label = None

\* C19: in one list_commands call no two Matches carry the same index,
\* whatever `number` conditions the rules hold, so that for every Match
\* there is a value of number with which execute(), called without label,
\* selects it.
C19_IndicesDistinct ==
    Listed =>
        /\ \A p \in 1..Len(matches), q \in 1..Len(matches) :
               p # q => matches[p].count # matches[q].count
        /\ \A p \in 1..Len(matches) :
               FirstSelected(matches, 1, matches[p].count, None) = p

\* the extra flags of the caller as a string: '' when none were passed
CallerFlags == IF call.flags = None THEN <<>> ELSE call.flags

\* C20: when execute() takes the label fallback, the flags applied to the
\* synthesized command are squash_flags(the caller's extra flags), and the
\* command is the preamble followed by the template wrapped according to
\* these flags: no `flag` condition of a rule has a part in it.
C20_FallbackFlagsFromCaller ==
    (ExecuteStarted /\ sel.fallback) =>
        /\ self.app_flags = squash_flags(CallerFlags)
        /\ command # None =>
              command = Preamble(call.files)
                        \o ApplyFlags(sel.action, squash_flags(CallerFlags),
                                      call.world, call.world.environ).action

\* ------------------------------------------------------------------------
\* Properties of the command builder, checked under SpecBuild
\* ------------------------------------------------------------------------
\* The words the shell makes of a command line, from character i on: cur is
\* the word being read and inword tells whether there is one (a quoted empty
\* string is a word).  Outside quotes a space ends a word and a newline ends
\* the line; a single quote opens a literal stretch that ends at the next
\* single quote; a backslash outside quotes makes the next character
\* literal.
RECURSIVE ShellWords(_, _, _, _)
ShellWords(s, i, cur, inword) ==
    IF i > Len(s) \/ s[i] = "\n"
    THEN IF inword THEN <<cur>> ELSE <<>>
    ELSE IF s[i] = " "
    THEN (IF inword THEN <<cur>> ELSE <<>>)
         \o ShellWords(s, i + 1, <<>>, FALSE)
    ELSE IF s[i] = "'"
    THEN ShellWords(s, FindFrom(s, "'", i + 1) + 1,
                    cur \o SubSeq(s, i + 1, FindFrom(s, "'", i + 1) - 1),
                    TRUE)
    ELSE IF s[i] = "\\"
    THEN ShellWords(s, i + 2, Append(cur, s[i + 1]), TRUE)
    ELSE ShellWords(s, i + 1, Append(cur, s[i]), TRUE)

\* the positional parameters the first line of a command binds: the words
\* after "set --"
Positionals(cmd) == SubSeq(ShellWords(cmd, 1, <<>>, FALSE), 3,
                           Len(ShellWords(cmd, 1, <<>>, FALSE)))

\* the file names without null byte, in list order
Retained(files) ==
    LET HasNoNul(f) == Find(f, NUL) = 0 IN SelectSeq(files, HasNoNul)

BuiltCommand == call.op = "_build_command" /\ outcome = "returned"

\* C18: for every file list, the empty list and the lists of names with a
\* null byte included, the preamble of the command binds as positional
\* parameters exactly the file names without null byte, one parameter per
\* name, in list order and character for character.
C18_PreambleBindsFiles ==
    BuiltCommand =>
        /\ SubSeq(ShellWords(result, 1, <<>>, FALSE), 1, 2)
               = <<<<"s", "e", "t">>, <<"-", "-">>>>
        /\ Positionals(result) = Retained(call.files)
        /\ Len(Positionals(result)) = Len(Retained(call.files))

====
